---------------------------- MODULE Spec2Model ----------------------------
(***************************************************************************)
(* Model of the Turbulence-Info-Bot: the shear/turbulence computations of  *)
(* main.py and the Telegram command handlers of bot.py.                    *)
(*                                                                         *)
(* Floating-point values are modelled by a small binary floating-point     *)
(* format with the IEEE 754 structure (normal and subnormal numbers,       *)
(* round-to-nearest-even, +inf/-inf/NaN): MantBits bits of significand,    *)
(* a least unit of 2^-FracBits and binades 0..MaxExp.  A finite value is   *)
(* held as its signed count n of least units.                              *)
(***************************************************************************)
EXTENDS Integers, Sequences, FiniteSets, TLC

MantBits == 4
FracBits == 4
MaxExp == 5

RECURSIVE Pow2(_)
Pow2(n) == IF n = 0 THEN 1 ELSE 2 * Pow2(n - 1)

Abs(x) == IF x < 0 THEN -x ELSE x
Sgn(x) == IF x < 0 THEN -1 ELSE 1
Max(a, b) == IF a >= b THEN a ELSE b

Unit == Pow2(FracBits)           \* least units per 1.0
MantLim == Pow2(MantBits)        \* significands are 0 .. MantLim-1
MaxFinite == (MantLim - 1) * Pow2(MaxExp)
MinNormal == Pow2(MantBits - 1)  \* below this a value is subnormal

NaN == [k |-> "nan", n |-> 0]
PosInf == [k |-> "pinf", n |-> 0]
NegInf == [k |-> "ninf", n |-> 0]
Fin(n) == [k |-> "fin", n |-> n]

IsFinite(x) == x.k = "fin"
IsNaN(x) == x.k = "nan"
SignOf(x) == IF x.k = "ninf" \/ (x.k = "fin" /\ x.n < 0) THEN -1 ELSE 1
IsZero(x) == x.k = "fin" /\ x.n = 0
InfOf(s) == IF s < 0 THEN NegInf ELSE PosInf

\* The binade of a non-negative rational num/den (in least units): the least
\* k with num/den < 2^(MantBits+k); MaxExp+1 when it is past the last binade.
RECURSIVE BinadeFrom(_, _, _)
BinadeFrom(num, den, k) ==
    IF k > MaxExp THEN k
    ELSE IF num < MantLim * Pow2(k) * den THEN k
    ELSE BinadeFrom(num, den, k + 1)

\* Round-to-nearest-even of the non-negative rational num/den least units;
\* the result is a count of least units, or -1 for overflow to infinity.
RoundMag(num, den) ==
    LET k == BinadeFrom(num, den, 0) IN
    IF k > MaxExp THEN -1
    ELSE LET step == Pow2(k)
             m == num \div (den * step)
             rem == num - m * den * step
             up == \/ 2 * rem > den * step
                   \/ (2 * rem = den * step /\ m % 2 = 1)
             r == (IF up THEN m + 1 ELSE m) * step
         IN IF r > MaxFinite THEN -1 ELSE r

Round(sign, num, den) ==
    LET r == RoundMag(num, den) IN
    IF r < 0 THEN InfOf(sign) ELSE Fin(sign * r)

\* Integer square root (floor).
RECURSIVE ISqrtFrom(_, _)
ISqrtFrom(q, m) == IF (m + 1) * (m + 1) > q THEN m ELSE ISqrtFrom(q, m + 1)

RECURSIVE SqrtBinadeFrom(_, _)
SqrtBinadeFrom(q, k) ==
    IF k > MaxExp THEN k
    ELSE IF q < (MantLim * Pow2(k)) * (MantLim * Pow2(k)) THEN k
    ELSE SqrtBinadeFrom(q, k + 1)

\* Round-to-nearest-even of sqrt(q) for a non-negative integer q.
SqrtRoundMag(q) ==
    LET k == SqrtBinadeFrom(q, 0) IN
    IF k > MaxExp THEN -1
    ELSE LET step == Pow2(k)
             m == ISqrtFrom(q \div (step * step), 0)
             mid == (2 * m + 1) * (2 * m + 1) * step * step
             up == \/ 4 * q > mid
                   \/ (4 * q = mid /\ m % 2 = 1)
             r == (IF up THEN m + 1 ELSE m) * step
         IN IF r > MaxFinite THEN -1 ELSE r

\* a - b
FSub(a, b) ==
    IF IsNaN(a) \/ IsNaN(b) THEN NaN
    ELSE IF ~IsFinite(a) /\ ~IsFinite(b)
         THEN IF a.k = b.k THEN NaN ELSE a
    ELSE IF ~IsFinite(a) THEN a
    ELSE IF ~IsFinite(b) THEN InfOf(-SignOf(b))
    ELSE Round(Sgn(a.n - b.n), Abs(a.n - b.n), 1)

\* a + b
FAdd(a, b) ==
    IF IsNaN(a) \/ IsNaN(b) THEN NaN
    ELSE IF ~IsFinite(a) /\ ~IsFinite(b)
         THEN IF a.k = b.k THEN a ELSE NaN
    ELSE IF ~IsFinite(a) THEN a
    ELSE IF ~IsFinite(b) THEN b
    ELSE Round(Sgn(a.n + b.n), Abs(a.n + b.n), 1)

\* a / b (a zero divisor is +0: the difference of two equal values)
FDiv(a, b) ==
    IF IsNaN(a) \/ IsNaN(b) THEN NaN
    ELSE IF ~IsFinite(a) /\ ~IsFinite(b) THEN NaN
    ELSE IF ~IsFinite(a) THEN InfOf(SignOf(a) * SignOf(b))
    ELSE IF ~IsFinite(b) THEN Fin(0)
    ELSE IF b.n = 0 THEN (IF a.n = 0 THEN NaN ELSE InfOf(SignOf(a)))
    ELSE Round(Sgn(a.n) * Sgn(b.n), Abs(a.n) * Unit, Abs(b.n))

\* a ** 2
FSq(a) ==
    IF IsNaN(a) THEN NaN
    ELSE IF ~IsFinite(a) THEN PosInf
    ELSE Round(1, a.n * a.n, Unit)

\* np.sqrt(a)
FSqrt(a) ==
    IF IsNaN(a) THEN NaN
    ELSE IF a.k = "pinf" THEN PosInf
    ELSE IF a.k = "ninf" \/ a.n < 0 THEN NaN
    ELSE LET r == SqrtRoundMag(a.n * Unit) IN
         IF r < 0 THEN PosInf ELSE Fin(r)

\* a < b (every comparison with NaN is false)
FLt(a, b) ==
    IF IsNaN(a) \/ IsNaN(b) THEN FALSE
    ELSE IF a.k = "pinf" \/ b.k = "ninf" THEN FALSE
    ELSE IF a.k = "ninf" \/ b.k = "pinf" THEN TRUE
    ELSE a.n < b.n

FLe(a, b) ==
    IF IsNaN(a) \/ IsNaN(b) THEN FALSE
    ELSE a = b \/ FLt(a, b)

\* The float nearest to the rational p/q, and to the integer i.
FromRatio(p, q) == Round(Sgn(p), Abs(p) * Unit, q)
FromInt(i) == FromRatio(i, 1)

\* The non-negative finite values of the format, in least units.
Reps ==
    {m : m \in 0 .. (MantLim - 1)} \cup
    {m * Pow2(k) : m \in (MantLim \div 2) .. (MantLim - 1), k \in 1 .. MaxExp}

NonNegFloats == {Fin(n) : n \in Reps} \cup {PosInf}
FiniteFloats == {Fin(n) : n \in Reps} \cup {Fin(-n) : n \in Reps}
Floats == FiniteFloats \cup {PosInf, NegInf, NaN}

(***************************************************************************)
(* main.py: the pure computations.                                         *)
(***************************************************************************)

\* Outcome of a call: a returned value or a raised exception.
Returned(v) == [kind |-> "return", value |-> v]
Raised(e) == [kind |-> "raise", exc |-> e]

\* Thresholds of classify_turbulence.
ModerateFrom == 5
SevereFrom == 10
ExtremeFrom == 15

classify_turbulence_closed(shear_value) ==
    IF FLe(shear_value, FromInt(ModerateFrom)) THEN 0
    ELSE IF FLt(shear_value, FromInt(SevereFrom)) THEN 1
    ELSE IF FLt(shear_value, FromInt(ExtremeFrom)) THEN 2
    ELSE 3

classify_turbulence(shear_value) ==
    IF FLt(shear_value, FromInt(ModerateFrom)) THEN 0
    ELSE IF FLt(shear_value, FromInt(SevereFrom)) THEN 1
    ELSE IF FLt(shear_value, FromInt(ExtremeFrom)) THEN 2
    ELSE 3

\* Bounding boxes hold hundredths of a degree: 71.00 is 7100.  A continent name
\* is the sequence of its words: "North America" is <<"North", "America">>.

\* The table of get_windshear_data.
continent_boundaries_ws ==
    [c \in {<<"Africa">>, <<"Antarctica">>, <<"Asia">>, <<"Australia">>,
            <<"Europe">>, <<"North", "America">>, <<"South", "America">>} |->
       CASE c = <<"Africa">> -> <<3738, -1803, -3483, 5148>>
         [] c = <<"Antarctica">> -> <<-6000, -18000, -9000, 18000>>
         [] c = <<"Asia">> -> <<7771, 2598, -1102, 17969>>
         [] c = <<"Australia">> -> <<-1007, 11292, -4363, 15911>>
         [] c = <<"Europe">> -> <<7100, -3100, 3600, 4000>>
         [] c = <<"North", "America">> -> <<8317, -16869, 1453, -5262>>
         [] c = <<"South", "America">> -> <<1340, -8130, -5596, -3476>>]

\* The table of get_turbulence_data.
continent_boundaries_turb ==
    [c \in {<<"Africa">>, <<"Antarctica">>, <<"Asia">>, <<"Australia">>,
            <<"Europe">>, <<"North", "America">>, <<"South", "America">>} |->
       CASE c = <<"Africa">> -> <<3738, -1803, -3483, 5148>>
         [] c = <<"Antarctica">> -> <<-6000, -18000, -9000, 18000>>
         [] c = <<"Asia">> -> <<7771, 2598, -1102, 17969>>
         [] c = <<"Australia">> -> <<-1007, 11292, -4363, 15911>>
         [] c = <<"Europe">> -> <<7100, -3100, 3600, 4000>>
         [] c = <<"North", "America">> -> <<8317, -16869, 1453, -5262>>
         [] c = <<"South", "America">> -> <<1340, -8130, -5596, -3476>>]

\* dict.get(key, default)
DictGet(d, key, default) == IF key \in DOMAIN d THEN d[key] ELSE default

\* dict[key]: a missing key raises KeyError (the outcome is not a box).
DictIndex(d, key) == IF key \in DOMAIN d THEN d[key] ELSE <<"KeyError">>

resolve_windshear_strict(continent) == DictIndex(continent_boundaries_ws, continent)

\* continent_boundaries.get(continent, [71.0, -31.0, 36.0, 40.0])
resolve_windshear(continent) ==
    DictGet(continent_boundaries_ws, continent, <<7100, -3100, 3600, 4000>>)

resolve_turbulence(continent) ==
    DictGet(continent_boundaries_turb, continent, <<7100, -3100, 3600, 4000>>)

convert_api_to_plot_format_swapped(api_coords) ==
    IF Len(api_coords) # 4 THEN Raised("ValueError")
    ELSE LET north == api_coords[1]
             west == api_coords[2]
             south == api_coords[3]
             east == api_coords[4]
         IN Returned(<<west, east, north, south>>)

\* north, west, south, east = api_coords; return [west, east, south, north]
convert_api_to_plot_format(api_coords) ==
    IF Len(api_coords) # 4 THEN Raised("ValueError")
    ELSE LET north == api_coords[1]
             west == api_coords[2]
             south == api_coords[3]
             east == api_coords[4]
         IN Returned(<<west, east, south, north>>)

(***************************************************************************)
(* Gridded fields (xarray DataArrays): lat and lon are the coordinate      *)
(* labels in order, val gives the value at every <<lat, lon>> label pair.  *)
(***************************************************************************)
Range(s) == {s[i] : i \in DOMAIN s}

\* The label pairs of a grid.
Grid(lat, lon) == Range(lat) \X Range(lon)

MkField(lat, lon, val) == [lat |-> lat, lon |-> lon, val |-> val]

Keep(s, S) == SelectSeq(s, LAMBDA x : x \in S)

\* The value computed at one grid point: sqrt(horizontal**2 + vertical**2).
GeneralShearAt_vertical_unsquared(vertical, horizontal) ==
    FSqrt(FAdd(FSq(horizontal), vertical))

GeneralShearAt(vertical, horizontal) ==
    FSqrt(FAdd(FSq(horizontal), FSq(vertical)))

\* np.sqrt(horizontal_shear**2 + vertical_shear**2) on DataArrays: xarray
\* aligns the operands of the sum on their coordinate labels first
\* (arithmetic_join = "inner") and computes at the labels both have; the
\* rest is elementwise.
calculate_general_wind_shear(vertical_shear, horizontal_shear) ==
    LET lat == Keep(horizontal_shear.lat, Range(vertical_shear.lat))
        lon == Keep(horizontal_shear.lon, Range(vertical_shear.lon))
    IN MkField(lat, lon,
               [p \in Grid(lat, lon) |->
                   GeneralShearAt(vertical_shear.val[p], horizontal_shear.val[p])])

\* The value of calculate_wind_shear at one grid point, from the values of
\* u, v, z at levels 500 (u1, v1, z1) and 300 (u2, v2, z2).
VerticalShearAt(o) ==
    LET delta_u == FSub(o.u1, o.u2)
        delta_v == FSub(o.v1, o.v2)
        delta_z == FSub(o.z1, o.z2)
    IN FSqrt(FAdd(FSq(FDiv(delta_u, delta_z)), FSq(FDiv(delta_v, delta_z))))


(***************************************************************************)
(* A dataset (the xarray Dataset of download_era5_data): the coordinate    *)
(* labels lat, lon and, at every grid point, u, v, z at pressure level 500 *)
(* (u1, v1, z1) and 300 (u2, v2, z2).                                      *)
(***************************************************************************)
MkData(lat, lon, pt) == [lat |-> lat, lon |-> lon, pt |-> pt]

calculate_wind_shear(data) ==
    MkField(data.lat, data.lon,
            [p \in Grid(data.lat, data.lon) |-> VerticalShearAt(data.pt[p])])

\* np.gradient along one axis with evenly spaced coordinates xs (labels in
\* order), at position i, of the values f[1..Len(xs)]: one-sided differences
\* at the two ends, central differences inside.
GradientAt(f, xs, i) ==
    LET n == Len(xs)
        dx == FSub(FromInt(xs[2]), FromInt(xs[1]))
    IN IF i = 1 THEN FDiv(FSub(f[2], f[1]), dx)
       ELSE IF i = n THEN FDiv(FSub(f[n], f[n - 1]), dx)
       ELSE FDiv(FSub(f[i + 1], f[i - 1]), FAdd(dx, dx))

IndexOf(s, x) == CHOOSE i \in DOMAIN s : s[i] = x

\* sqrt(u_lon_gradient**2 + v_lat_gradient**2) with u, v at level 500;
\* differentiate needs two points on the axis.
calculate_horizontal_shear(data) ==
    IF Len(data.lat) < 2 \/ Len(data.lon) < 2 THEN Raised("ValueError")
    ELSE Returned(MkField(data.lat, data.lon, [p \in Grid(data.lat, data.lon) |->
        LET y == p[1]
            x == p[2]
            u_lon_gradient ==
                GradientAt([j \in DOMAIN data.lon |-> data.pt[<<y, data.lon[j]>>].u1],
                           data.lon, IndexOf(data.lon, x))
            v_lat_gradient ==
                GradientAt([i \in DOMAIN data.lat |-> data.pt[<<data.lat[i], x>>].v1],
                           data.lat, IndexOf(data.lat, y))
        IN FSqrt(FAdd(FSq(u_lon_gradient), FSq(v_lat_gradient)))]))

\* np.vectorize(classify_turbulence)(general_wind_shear) as a DataArray on
\* the coordinates of general_wind_shear.
classify_field(general_wind_shear) ==
    MkField(general_wind_shear.lat, general_wind_shear.lon,
            [p \in Grid(general_wind_shear.lat, general_wind_shear.lon) |->
                classify_turbulence(general_wind_shear.val[p])])

\* The request download_era5_data sends: the minutes are set to 00.
download_era5_request(date, time, area) ==
    [date |-> date, time |-> <<time[1], 0>>, area |-> area]

\* Default of the continent parameter of plot_wind_shear and
\* plot_turbulence_level.
plot_default_continent == <<7100, -3100, 3600, 4000>>

\* area of main().
main_area == <<7100, -3100, 3600, 4000>>

plot_extent_unconverted(continent) == continent

\* ax.set_extent(convert_api_to_plot_format(continent)) of plot_wind_shear and
\* plot_turbulence_level: the extent the map is given.
plot_extent(continent) == convert_api_to_plot_format(continent).value

image_filename_scoped(req, image) ==
    IF req = 1
    THEN CASE image = "vertical" -> "vertical_wind_shear.png"
           [] image = "horizontal" -> "horizontal_wind_shear.png"
           [] image = "general" -> "general_wind_shear.png"
           [] image = "turbulence" -> "turbulence_level.png"
    ELSE CASE image = "vertical" -> "request/vertical_wind_shear.png"
           [] image = "horizontal" -> "request/horizontal_wind_shear.png"
           [] image = "general" -> "request/general_wind_shear.png"
           [] image = "turbulence" -> "request/turbulence_level.png"

\* The file a request writes an image to and reads it back from: the literal
\* names of get_windshear_data, get_turbulence_data and main.
image_filename(req, image) ==
    CASE image = "vertical" -> "vertical_wind_shear.png"
      [] image = "horizontal" -> "horizontal_wind_shear.png"
      [] image = "general" -> "general_wind_shear.png"
      [] image = "turbulence" -> "turbulence_level.png"

(***************************************************************************)
(* bot.py: what the handlers parse and decide.                             *)
(***************************************************************************)

\* A command argument: its text w, its lexical shape (d a digit) and the
\* numbers its digit groups spell.
Word(w) == [w |-> w, shape |-> "word", v |-> <<>>]
DateTok(w, shape, y, m, d) == [w |-> w, shape |-> shape, v |-> <<y, m, d>>]
TimeTok(w, shape, hh, mm) == [w |-> w, shape |-> shape, v |-> <<hh, mm>>]

IsLeap(y) == (y % 4 = 0 /\ y % 100 # 0) \/ y % 400 = 0
DaysIn(y, m) ==
    IF m = 2 THEN (IF IsLeap(y) THEN 29 ELSE 28)
    ELSE IF m \in {4, 6, 9, 11} THEN 30 ELSE 31

\* datetime.strptime(s, '%Y-%m-%d'): four digits, then one or two digits for
\* the month and for the day, and a date of the calendar.
strptime_date(tok) ==
    IF /\ tok.shape \in {"dddd-dd-dd", "dddd-d-dd", "dddd-dd-d", "dddd-d-d"}
       /\ tok.v[1] >= 1
       /\ tok.v[2] \in 1 .. 12
       /\ tok.v[3] \in 1 .. DaysIn(tok.v[1], tok.v[2])
    THEN Returned(tok.v)
    ELSE Raised("ValueError")

\* datetime.strptime(s, '%H:%M').time()
strptime_time(tok) ==
    IF /\ tok.shape \in {"dd:dd", "d:dd", "dd:d", "d:d"}
       /\ tok.v[1] \in 0 .. 23
       /\ tok.v[2] \in 0 .. 59
    THEN Returned(tok.v)
    ELSE Raised("ValueError")

\* ' '.join(args[from:]): the words of the continent name.
JoinFrom(args, from) == [i \in 1 .. Max(Len(args) - from + 1, 0) |-> args[i + from - 1].w]

\* An exception: its type and, when its message holds "The latest date
\* available for this dataset is: <stamp>", the stamp <<y, m, d, H, M>>;
\* <<>> when the message holds no such text.
Exc(type, stamp) == [type |-> type, stamp |-> stamp]
NoExc == Exc("", <<>>)

\* re.search(r'The latest date available for this dataset is:
\* (\d{4}-\d{2}-\d{2} \d{2}:\d{2})', str(e)) of latest.
latest_match(e) == e.stamp # <<>>

\* datetime.strptime(latest_date_str, '%Y-%m-%d %H:%M')
strptime_stamp(stamp) ==
    IF /\ stamp[1] >= 1
       /\ stamp[2] \in 1 .. 12
       /\ stamp[3] \in 1 .. DaysIn(stamp[1], stamp[2])
       /\ stamp[4] \in 0 .. 23
       /\ stamp[5] \in 0 .. 59
    THEN Returned(stamp)
    ELSE Raised("ValueError")

latest_retry_datetime_now(stamp, now) == now

\* date = latest_date.date(); time = latest_date.time() of latest: the date
\* and time the retry asks for.
latest_retry_datetime(stamp, now) == stamp

DatePart(dt) == <<dt[1], dt[2], dt[3]>>
TimePart(dt) == <<dt[4], dt[5]>>

get_turbulence_data_no_render ==
    <<"resolve", "download", "vertical", "plot_vertical", "horizontal",
      "plot_horizontal", "general", "plot_general", "classify">>

\* The statements of get_turbulence_data, in order.
get_turbulence_data_steps ==
    <<"resolve", "download", "vertical", "plot_vertical", "horizontal",
      "plot_horizontal", "general", "plot_general", "classify", "plot_turbulence">>

\* The statements of get_windshear_data, in order.
get_windshear_data_steps ==
    <<"resolve", "download", "vertical", "plot_vertical", "horizontal",
      "plot_horizontal", "general", "plot_general">>

\* The statements of main, in order.
main_steps ==
    <<"download", "vertical", "plot_vertical", "horizontal",
      "plot_horizontal", "general", "plot_general", "classify", "plot_turbulence">>

StepsOf(fn) ==
    CASE fn = "get_turbulence_data" -> get_turbulence_data_steps
      [] fn = "get_windshear_data" -> get_windshear_data_steps
      [] fn = "main" -> main_steps

\* The image a pipeline function returns the name of.
ResultImage(fn) == IF fn = "get_windshear_data" THEN "general" ELSE "turbulence"

(***************************************************************************)
(* Inputs.                                                                 *)
(***************************************************************************)
MaxReqs == 2

ReqIds == 1 .. MaxReqs

Commands == {"latest", "continent", "turbulence_request", "windshear_request", "main"}

D1 == DateTok("2024-11-15", "dddd-dd-dd", 2024, 11, 15)
DShort == DateTok("2024-2-9", "dddd-d-d", 2024, 2, 9)
DSlash == DateTok("15/11/2024", "dd/dd/dddd", 15, 11, 2024)
DNoDay == DateTok("2023-02-29", "dddd-dd-dd", 2023, 2, 29)
T1 == TimeTok("10:00", "dd:dd", 10, 0)
T2 == TimeTok("10:30", "dd:dd", 10, 30)
TBad == TimeTok("25:00", "dd:dd", 25, 0)

ArgSamples ==
    { <<>>,
      <<D1, T1>>,
      <<D1, T1, Word("Europe")>>,
      <<D1, T2, Word("North"), Word("America")>>,
      <<DShort, T1, Word("europe")>>,
      <<DSlash, T1, Word("Asia")>>,
      <<DNoDay, T1, Word("Asia")>>,
      <<D1, TBad, Word("Asia")>>,
      <<Word("Asia")>>,
      <<Word("South"), Word("America")>>,
      <<Word("Nowhereland")>> }

ConcArgSamples ==
    { <<>>,
      <<D1, T2, Word("North"), Word("America")>>,
      <<Word("Asia")>> }

NowSamples == {<<2024, 11, 15, 10, 42>>}

\* Stamps a failure message of the data source may hold; the last is text the
\* pattern matches that is no date.
StampSamples == {<<2024, 11, 10, 10, 0>>, <<2024, 11, 9, 18, 30>>, <<2024, 13, 10, 10, 0>>}

GridLat == <<1, 0>>
GridLon == <<0, 1>>

PointOf(u1, u2, v1, v2, z1, z2) ==
    [u1 |-> FromInt(u1), u2 |-> FromInt(u2), v1 |-> FromInt(v1),
     v2 |-> FromInt(v2), z1 |-> FromInt(z1), z2 |-> FromInt(z2)]

\* Datasets the data source may return: a calm one, one whose shear spans the
\* categories, and one whose two levels have the same z at a grid point.
DataSamples ==
    { MkData(GridLat, GridLon, [p \in Grid(GridLat, GridLon) |-> PointOf(2, 4, 0, 0, 5, 9)]),
      MkData(GridLat, GridLon, [p \in Grid(GridLat, GridLon) |-> PointOf(6 * (p[1] + p[2]), 0, 0, 0, 5, 6)]),
      MkData(GridLat, GridLon, [p \in Grid(GridLat, GridLon) |-> PointOf(2 * p[2], 0, 3, 3, 5 + 4 * p[1], 9)]) }

\* Failures of the data source.
DownloadFailures ==
    {Exc("Exception", <<>>)} \cup {Exc("Exception", st) : st \in StampSamples}

\* Steps that may fail besides the download (a missing variable, a file that
\* cannot be written).
FailingSteps == {"vertical", "plot_general", "plot_turbulence"}

VARIABLES call, ret, h, cpu, files, download_nc, trace, nreq
vars == <<call, ret, h, cpu, files, download_nc, trace, nreq>>
fnVars == <<call, ret>>
botVars == <<h, cpu, files, download_nc, trace, nreq>>

Idle ==
    [pc |-> "idle", cmd |-> "", args |-> <<>>, susp |-> FALSE, now |-> <<>>,
     fn |-> "", step |-> 0, phase |-> 0, date |-> <<>>, time |-> <<>>,
     name |-> <<>>, box |-> <<>>, data |-> <<>>, vertical |-> <<>>,
     horizontal |-> <<>>, general |-> <<>>, turbulence |-> <<>>,
     images |-> <<>>, exc |-> NoExc]

InitBot ==
    /\ h = [r \in ReqIds |-> Idle]
    /\ cpu = 0
    /\ files = <<>>
    /\ download_nc = 0
    /\ trace = [r \in ReqIds |-> <<>>]
    /\ nreq = 0


(***************************************************************************)
(* The computations applied to inputs drawn from bounded sets.             *)
(***************************************************************************)
NameSamples ==
    DOMAIN continent_boundaries_ws \cup
    {<<"europe">>, <<"EUROPE">>, <<"Euro">>, <<"North">>, <<"Europe", "Asia">>,
     <<"Nowhereland">>, <<>>}

CoordSamples == {-3100, 3600, 4000, 7100}

BoxSamples ==
    {<<a, b, c, d>> : a \in CoordSamples, b \in CoordSamples,
                      c \in CoordSamples, d \in CoordSamples}
    \cup {continent_boundaries_ws[c] : c \in DOMAIN continent_boundaries_ws}

ListSamples == BoxSamples \cup {<<>>, <<7100, -3100, 3600>>, <<7100, -3100, 3600, 4000, 0>>}

ShearSamples == NonNegFloats \cup {NaN}

LatSamples == {<<1, 0>>, <<2, 1>>, <<2, 1, 0>>, <<3, 2>>}
LonSamples == {<<0, 1>>, <<1, 2>>}

FieldSamples ==
    {MkField(lat, lon, [p \in Grid(lat, lon) |-> FromInt(c * (p[1] + p[2]))]) :
        lat \in LatSamples, lon \in LonSamples, c \in {1, 2}}

PointSamples ==
    [u1 : {FromInt(0), FromInt(2), FromInt(4)},
     u2 : {FromInt(0), FromInt(2), FromInt(4)},
     v1 : {FromInt(0), FromInt(3)},
     v2 : {FromInt(0), FromInt(3)},
     z1 : {FromInt(5), FromInt(9)},
     z2 : {FromInt(5), FromInt(9)}]

Call(fn, arg) == [fn |-> fn, arg |-> arg]

FnCalls ==
    {Call("classify_turbulence", x) : x \in Floats}
    \cup {Call("resolve_windshear", c) : c \in NameSamples}
    \cup {Call("resolve_turbulence", c) : c \in NameSamples}
    \cup {Call("convert_api_to_plot_format", b) : b \in ListSamples}
    \cup {Call("general_shear_at", <<a, b>>) : a \in ShearSamples, b \in ShearSamples}
    \cup {Call("calculate_general_wind_shear", <<a, b>>) :
             a \in FieldSamples, b \in FieldSamples}
    \cup {Call("vertical_shear_at", o) : o \in PointSamples}

NoCall == Call("none", <<>>)

Pending == ret = <<>>
Done(fn) == call.fn = fn /\ ret # <<>>

InitFn == call \in FnCalls /\ ret = <<>> /\ InitBot

Apply(fn, result) ==
    /\ call.fn = fn
    /\ Pending
    /\ ret' = <<result>>
    /\ UNCHANGED <<call, botVars>>

ClassifyTurbulence == Apply("classify_turbulence", classify_turbulence(call.arg))
ResolveWindshear == Apply("resolve_windshear", resolve_windshear(call.arg))
ResolveTurbulence == Apply("resolve_turbulence", resolve_turbulence(call.arg))
ConvertApiToPlot ==
    Apply("convert_api_to_plot_format", convert_api_to_plot_format(call.arg))
GeneralShearPoint ==
    Apply("general_shear_at", GeneralShearAt(call.arg[1], call.arg[2]))
GeneralShearField ==
    Apply("calculate_general_wind_shear",
          Returned(calculate_general_wind_shear(call.arg[1], call.arg[2])))
VerticalShearPoint == Apply("vertical_shear_at", VerticalShearAt(call.arg))

NextFn ==
    \/ ClassifyTurbulence
    \/ ResolveWindshear
    \/ ResolveTurbulence
    \/ ConvertApiToPlot
    \/ GeneralShearPoint
    \/ GeneralShearField
    \/ VerticalShearPoint

SpecFn == InitFn /\ [][NextFn]_vars
(***************************************************************************)
(* The handlers of bot.py and main() of main.py, statement by statement.   *)
(* A handler is a coroutine: it runs from one await to the next without    *)
(* interruption (cpu names the handler that runs) and is suspended at each *)
(* await of a reply.                                                       *)
(***************************************************************************)
Ev(ev, arg) == [ev |-> ev, arg |-> arg]

Running(r) == cpu = r /\ ~h[r].susp

ClearLocals(rec) ==
    [rec EXCEPT !.data = <<>>, !.vertical = <<>>, !.horizontal = <<>>,
                !.general = <<>>, !.turbulence = <<>>, !.box = <<>>]

InTry_latest_only(rec) ==
    rec.cmd = "latest" /\ rec.pc = "pipeline" /\ rec.phase <= 2

\* Whether the statement the handler is at lies in a try block that catches
\* Exception.
InTry(rec) ==
    \/ rec.cmd \in {"turbulence_request", "windshear_request"}
    \/ rec.cmd = "latest" /\ rec.pc = "pipeline" /\ rec.phase <= 2

CatchPc(rec) ==
    IF ~InTry(rec) THEN "crashed"
    ELSE IF rec.cmd = "latest" THEN "l_except" ELSE "r_except"

\* The statement raises e: control goes to the except clause around it, or
\* the exception leaves the handler (the application's error callback prints
\* it).
RaiseAt(r, e, events) ==
    LET to == CatchPc(h[r]) IN
    /\ h' = [h EXCEPT ![r] = [ClearLocals(@) EXCEPT !.pc = to, !.exc = e]]
    /\ cpu' = IF to = "crashed" THEN 0 ELSE cpu
    /\ trace' = [trace EXCEPT ![r] = @ \o events \o <<Ev("raise", e)>>]

\* await update.message.reply_text(...)
ReplyText(r, text, to) ==
    /\ h' = [h EXCEPT ![r] = [@ EXCEPT !.pc = to, !.susp = TRUE]]
    /\ cpu' = 0
    /\ trace' = [trace EXCEPT ![r] = Append(@, Ev("reply_text", text))]
    /\ UNCHANGED <<files, download_nc, nreq, fnVars>>

\* await update.message.reply_photo(open(file, 'rb'))
ReplyPhoto(r, file, to) ==
    /\ IF file \in DOMAIN files
       THEN /\ h' = [h EXCEPT ![r] = [@ EXCEPT !.pc = to, !.susp = TRUE]]
            /\ cpu' = 0
            /\ trace' = [trace EXCEPT ![r] =
                            Append(@, Ev("reply_photo", [file |-> file, sent |-> files[file]]))]
       ELSE RaiseAt(r, Exc("FileNotFoundError", <<>>), <<>>)
    /\ UNCHANGED <<files, download_nc, nreq, fnVars>>

\* A call of get_turbulence_data, get_windshear_data or the body of main.
StartPipeline(r, phase, fn, date, time, name) ==
    /\ h' = [h EXCEPT ![r] =
                [@ EXCEPT !.pc = "pipeline", !.fn = fn, !.step = 1,
                          !.phase = phase, !.date = date, !.time = time,
                          !.name = name,
                          !.box = IF fn = "main" THEN main_area ELSE <<>>]]
    /\ trace' = [trace EXCEPT ![r] =
                    Append(@, Ev("pipeline_start",
                                 [fn |-> fn, phase |-> phase, date |-> date,
                                  time |-> time, name |-> name]))]
    /\ UNCHANGED <<cpu, files, download_nc, nreq, fnVars>>

\* An update with a command arrives and its handler starts.
Receive(r, c, a, now) ==
    /\ r = nreq + 1
    /\ h[r].pc = "idle"
    /\ cpu = 0
    /\ h' = [h EXCEPT ![r] = [Idle EXCEPT !.pc = "start", !.cmd = c, !.args = a, !.now = now]]
    /\ cpu' = r
    /\ nreq' = r
    /\ trace' = [trace EXCEPT ![r] = <<Ev("receive", c)>>]
    /\ UNCHANGED <<files, download_nc, fnVars>>

ReceiveInputs(r) ==
    \E c \in Commands, now \in NowSamples :
        \E a \in (IF c \in {"latest", "main"} THEN {<<>>} ELSE ArgSamples) :
            Receive(r, c, a, now)

\* The application handles one update at a time (concurrent_updates is off).
ReceiveInTurn(r) ==
    /\ \A q \in ReqIds \ {r} : h[q].pc \in {"idle", "retired"}
    /\ ReceiveInputs(r)

\* Updates handled concurrently: a handler may start while others wait at an
\* await.
ReceiveConcurrently(r) ==
    \E c \in Commands, now \in NowSamples :
        \E a \in (IF c \in {"latest", "main"} THEN {<<>>} ELSE ConcArgSamples) :
            Receive(r, c, a, now)

Resume(r) ==
    /\ h[r].susp
    /\ cpu = 0
    /\ h' = [h EXCEPT ![r] = [@ EXCEPT !.susp = FALSE]]
    /\ cpu' = r
    /\ UNCHANGED <<files, download_nc, trace, nreq, fnVars>>

Return(r) ==
    /\ Running(r)
    /\ h[r].pc = "end"
    /\ h' = [h EXCEPT ![r] = [@ EXCEPT !.pc = "done"]]
    /\ cpu' = 0
    /\ UNCHANGED <<files, download_nc, trace, nreq, fnVars>>

\* The update is dropped once handled.
Retire(r) ==
    /\ h[r].pc \in {"done", "crashed"}
    /\ h' = [h EXCEPT ![r] = [Idle EXCEPT !.pc = "retired"]]
    /\ trace' = [trace EXCEPT ![r] = <<>>]
    /\ UNCHANGED <<cpu, files, download_nc, nreq, fnVars>>

(************************ the pipeline functions ***************************)
AtStep(r, s) ==
    /\ Running(r)
    /\ h[r].pc = "pipeline"
    /\ h[r].step <= Len(StepsOf(h[r].fn))
    /\ StepsOf(h[r].fn)[h[r].step] = s

Advance(r, rec) == h' = [h EXCEPT ![r] = [rec EXCEPT !.step = @ + 1]]

MayFail(r, s) ==
    /\ s \in FailingSteps
    /\ RaiseAt(r, Exc("Exception", <<>>), <<>>)
    /\ UNCHANGED <<files, download_nc, nreq, fnVars>>

\* continent = continent_boundaries.get(continent, [71.0, -31.0, 36.0, 40.0])
Resolve(r) ==
    /\ AtStep(r, "resolve")
    /\ Advance(r, [h[r] EXCEPT !.box =
                      IF h[r].fn = "get_windshear_data"
                      THEN resolve_windshear(h[r].name)
                      ELSE resolve_turbulence(h[r].name)])
    /\ UNCHANGED <<cpu, files, download_nc, trace, nreq, fnVars>>

\* data = download_era5_data(date, time, continent)
Download(r) ==
    /\ AtStep(r, "download")
    /\ LET sent == Ev("download", download_era5_request(h[r].date, h[r].time, h[r].box)) IN
       \/ \E d \in DataSamples :
            /\ Advance(r, [h[r] EXCEPT !.data = d])
            /\ download_nc' = r
            /\ trace' = [trace EXCEPT ![r] = Append(@, sent)]
            /\ UNCHANGED cpu
       \/ \E e \in DownloadFailures :
            /\ RaiseAt(r, e, <<sent>>)
            /\ UNCHANGED download_nc
    /\ UNCHANGED <<files, nreq, fnVars>>

\* vertical_shear = calculate_wind_shear(data)
Vertical(r) ==
    /\ AtStep(r, "vertical")
    /\ \/ /\ Advance(r, [h[r] EXCEPT !.vertical = calculate_wind_shear(h[r].data)])
          /\ trace' = [trace EXCEPT ![r] = Append(@, Ev("compute", "vertical"))]
          /\ UNCHANGED <<cpu, files, download_nc, nreq, fnVars>>
       \/ MayFail(r, "vertical")

\* horizontal_shear = calculate_horizontal_shear(data)
Horizontal(r) ==
    /\ AtStep(r, "horizontal")
    /\ LET res == calculate_horizontal_shear(h[r].data) IN
       IF res.kind = "return"
       THEN /\ Advance(r, [h[r] EXCEPT !.horizontal = res.value])
            /\ trace' = [trace EXCEPT ![r] = Append(@, Ev("compute", "horizontal"))]
            /\ UNCHANGED cpu
       ELSE RaiseAt(r, Exc(res.exc, <<>>), <<>>)
    /\ UNCHANGED <<files, download_nc, nreq, fnVars>>

\* general_wind_shear = calculate_general_wind_shear(vertical_shear, horizontal_shear)
General(r) ==
    /\ AtStep(r, "general")
    /\ Advance(r, [h[r] EXCEPT !.general =
                      calculate_general_wind_shear(h[r].vertical, h[r].horizontal)])
    /\ trace' = [trace EXCEPT ![r] = Append(@, Ev("compute", "general"))]
    /\ UNCHANGED <<cpu, files, download_nc, nreq, fnVars>>

\* turbulence = np.vectorize(classify_turbulence)(general_wind_shear)
Classify(r) ==
    /\ AtStep(r, "classify")
    /\ Advance(r, [h[r] EXCEPT !.turbulence = classify_field(h[r].general)])
    /\ trace' = [trace EXCEPT ![r] = Append(@, Ev("compute", "classify"))]
    /\ UNCHANGED <<cpu, files, download_nc, nreq, fnVars>>

\* plot_wind_shear(...) and plot_turbulence_level(...): the map extent is set
\* and the figure saved under the file name; main passes no continent.
Plot(r, s, image) ==
    /\ AtStep(r, s)
    /\ \/ LET continent == IF h[r].fn = "main" THEN plot_default_continent ELSE h[r].box
              file == image_filename(r, image)
              drawn == [req |-> r, image |-> image]
          IN /\ Advance(r, h[r])
             /\ files' = [f \in DOMAIN files \cup {file} |->
                             IF f = file THEN drawn ELSE files[f]]
             /\ trace' = [trace EXCEPT ![r] =
                             Append(@, Ev("plot", [image |-> image, file |-> file,
                                                   extent |-> plot_extent(continent)]))]
             /\ UNCHANGED <<cpu, download_nc, nreq, fnVars>>
       \/ MayFail(r, s)

PlotVertical(r) == Plot(r, "plot_vertical", "vertical")
PlotHorizontal(r) == Plot(r, "plot_horizontal", "horizontal")
PlotGeneral(r) == Plot(r, "plot_general", "general")
PlotTurbulence(r) == Plot(r, "plot_turbulence", "turbulence")

\* Where the caller goes on after the call returned.
AfterPipeline(rec) ==
    CASE rec.cmd = "latest" ->
            (CASE rec.phase = 1 -> "l_try2"
               [] rec.phase = 2 -> "l_photo1"
               [] rec.phase = 3 -> "l_retry2"
               [] OTHER -> "l_photo1")
      [] rec.cmd = "continent" -> "c_photo"
      [] rec.cmd = "main" -> "end"
      [] OTHER -> "r_photo"

\* return 'turbulence_level.png' / return 'general_wind_shear.png'
PipelineReturn(r) ==
    /\ Running(r)
    /\ h[r].pc = "pipeline"
    /\ h[r].step > Len(StepsOf(h[r].fn))
    /\ LET file == image_filename(r, ResultImage(h[r].fn)) IN
       h' = [h EXCEPT ![r] =
                [ClearLocals(@) EXCEPT
                    !.pc = AfterPipeline(h[r]),
                    !.images = IF h[r].fn = "get_windshear_data"
                               THEN [windshear |-> file] @@ @
                               ELSE [turbulence |-> file] @@ @]]
    /\ trace' = [trace EXCEPT ![r] = Append(@, Ev("pipeline_end", h[r].fn))]
    /\ UNCHANGED <<cpu, files, download_nc, nreq, fnVars>>

(******************************** /latest **********************************)
At(r, c, pc) == Running(r) /\ h[r].cmd = c /\ h[r].pc = pc

LatestProgress(r) ==
    /\ At(r, "latest", "start")
    /\ ReplyText(r, "retrieving", "l_try")

LatestTry(r) ==
    /\ At(r, "latest", "l_try")
    /\ StartPipeline(r, 1, "get_turbulence_data", DatePart(h[r].now), TimePart(h[r].now),
                     <<"Europe">>)

LatestTry2(r) ==
    /\ At(r, "latest", "l_try2")
    /\ StartPipeline(r, 2, "get_windshear_data", DatePart(h[r].now), TimePart(h[r].now),
                     <<"Europe">>)

LatestExcept(r) ==
    /\ At(r, "latest", "l_except")
    /\ IF latest_match(h[r].exc)
       THEN ReplyText(r, "retry_notice", "l_retry")
       ELSE ReplyText(r, "error", "end")

LatestRetry(r) ==
    /\ At(r, "latest", "l_retry")
    /\ LET parsed == strptime_stamp(h[r].exc.stamp) IN
       IF parsed.kind = "return"
       THEN LET dt == latest_retry_datetime(parsed.value, h[r].now) IN
            StartPipeline(r, 3, "get_turbulence_data", DatePart(dt), TimePart(dt), <<"Europe">>)
       ELSE /\ RaiseAt(r, Exc(parsed.exc, <<>>), <<>>)
            /\ UNCHANGED <<files, download_nc, nreq, fnVars>>

LatestRetry2(r) ==
    /\ At(r, "latest", "l_retry2")
    /\ StartPipeline(r, 4, "get_windshear_data", h[r].date, h[r].time, <<"Europe">>)

LatestPhoto1(r) ==
    /\ At(r, "latest", "l_photo1")
    /\ ReplyPhoto(r, h[r].images.turbulence, "l_photo2")

LatestPhoto2(r) ==
    /\ At(r, "latest", "l_photo2")
    /\ ReplyPhoto(r, h[r].images.windshear, "end")

(******************************* /continent ********************************)
ContinentNoArgs(r) ==
    /\ At(r, "continent", "start")
    /\ Len(h[r].args) < 1
    /\ ReplyText(r, "retrieving", "c_usage")

ContinentUsage(r) ==
    /\ At(r, "continent", "c_usage")
    /\ ReplyText(r, "provide_continent", "end")

ContinentCall(r) ==
    /\ At(r, "continent", "start")
    /\ Len(h[r].args) >= 1
    /\ StartPipeline(r, 1, "get_turbulence_data", DatePart(h[r].now), TimePart(h[r].now),
                     JoinFrom(h[r].args, 1))

ContinentPhoto(r) ==
    /\ At(r, "continent", "c_photo")
    /\ ReplyPhoto(r, h[r].images.turbulence, "end")

(*************** /turbulence_request and /windshear_request ****************)
IsRequest(r) == h[r].cmd \in {"turbulence_request", "windshear_request"}
AtRequest(r, pc) == Running(r) /\ IsRequest(r) /\ h[r].pc = pc

RequestUsage(r) ==
    /\ AtRequest(r, "start")
    /\ Len(h[r].args) < 3
    /\ ReplyText(r, "usage", "end")

RequestProgress(r) ==
    /\ AtRequest(r, "start")
    /\ Len(h[r].args) >= 3
    /\ ReplyText(r, "retrieving", "r_parse")

RequestParse_unchecked(r) ==
    /\ AtRequest(r, "r_parse")
    /\ StartPipeline(r, 1, IF h[r].cmd = "turbulence_request"
                          THEN "get_turbulence_data" ELSE "get_windshear_data",
                     SubSeq(h[r].args[1].v, 1, 3), SubSeq(h[r].args[2].v, 1, 2),
                     JoinFrom(h[r].args, 3))

\* try: date = strptime(date_str, '%Y-%m-%d'); time = strptime(time_str,
\* '%H:%M').time() except ValueError: reply and return; then the call of
\* the pipeline function.
RequestParse(r) ==
    /\ AtRequest(r, "r_parse")
    /\ LET date == strptime_date(h[r].args[1])
           time == strptime_time(h[r].args[2])
       IN IF date.kind = "return" /\ time.kind = "return"
          THEN StartPipeline(r, 1, IF h[r].cmd = "turbulence_request"
                                THEN "get_turbulence_data" ELSE "get_windshear_data",
                             date.value, time.value, JoinFrom(h[r].args, 3))
          ELSE ReplyText(r, "invalid_format", "end")

RequestPhoto(r) ==
    /\ AtRequest(r, "r_photo")
    /\ ReplyPhoto(r, IF h[r].cmd = "turbulence_request"
                     THEN h[r].images.turbulence ELSE h[r].images.windshear, "end")

RequestExcept(r) ==
    /\ AtRequest(r, "r_except")
    /\ ReplyText(r, "error", "end")

(********************************* main() **********************************)
MainRun(r) ==
    /\ At(r, "main", "start")
    /\ StartPipeline(r, 1, "main", <<2024, 11, 15>>, <<10, 0>>, <<"Europe">>)

Step(r) ==
    \/ Resume(r)
    \/ Return(r)
    \/ Retire(r)
    \/ Resolve(r)
    \/ Download(r)
    \/ Vertical(r)
    \/ PlotVertical(r)
    \/ Horizontal(r)
    \/ PlotHorizontal(r)
    \/ General(r)
    \/ PlotGeneral(r)
    \/ Classify(r)
    \/ PlotTurbulence(r)
    \/ PipelineReturn(r)
    \/ LatestProgress(r)
    \/ LatestTry(r)
    \/ LatestTry2(r)
    \/ LatestExcept(r)
    \/ LatestRetry(r)
    \/ LatestRetry2(r)
    \/ LatestPhoto1(r)
    \/ LatestPhoto2(r)
    \/ ContinentNoArgs(r)
    \/ ContinentUsage(r)
    \/ ContinentCall(r)
    \/ ContinentPhoto(r)
    \/ RequestUsage(r)
    \/ RequestProgress(r)
    \/ RequestParse(r)
    \/ RequestPhoto(r)
    \/ RequestExcept(r)
    \/ MainRun(r)

Init == call = NoCall /\ ret = <<>> /\ InitBot

Next == \E r \in ReqIds : ReceiveInTurn(r) \/ Step(r)

Spec == Init /\ [][Next]_vars

NextConc == \E r \in ReqIds : ReceiveConcurrently(r) \/ Step(r)

SpecConc == Init /\ [][NextConc]_vars
(***************************************************************************)
(* Properties of the pure computations (under SpecFn).                     *)
(***************************************************************************)
Arg == call.arg
Out == ret[1]

\* C1: classify_turbulence maps every finite shear value to the category of
\* its half-open interval: below 5 to 0, from 5 and below 10 to 1, from 10
\* and below 15 to 2, from 15 on to 3; so 5, 10, 15 fall into the upper
\* category and the values just below them into the lower one.
C1_ClassifyHalfOpen ==
    Done("classify_turbulence") /\ IsFinite(Arg) =>
        /\ (Arg.n < 5 * Unit => Out = 0)
        /\ (5 * Unit <= Arg.n /\ Arg.n < 10 * Unit => Out = 1)
        /\ (10 * Unit <= Arg.n /\ Arg.n < 15 * Unit => Out = 2)
        /\ (15 * Unit <= Arg.n => Out = 3)

\* The value 5.0 has been classified as 1 (Moderate).
C1_Witness ==
    Done("classify_turbulence") /\ IsFinite(Arg) /\ Arg.n = 5 * Unit /\ Out = 1

SevenContinents ==
    {<<"Africa">>, <<"Antarctica">>, <<"Asia">>, <<"Australia">>, <<"Europe">>,
     <<"North", "America">>, <<"South", "America">>}

EuropeBox == <<7100, -3100, 3600, 4000>>

\* A box in query form (north, west, south, east), in hundredths of a degree.
IsQueryBox(b) ==
    /\ Len(b) = 4
    /\ \A i \in 1 .. 4 : b[i] \in Int
    /\ -9000 <= b[3] /\ b[3] < b[1] /\ b[1] <= 9000
    /\ -18000 <= b[2] /\ b[2] < b[4] /\ b[4] <= 18000

\* C2: region resolution is total: each of the 7 exact continent names gives
\* that continent's box in query form (Europe gives (71.00, -31.00, 36.00,
\* 40.00), two continents never the same box), every other name gives
\* Europe's box and nothing is raised; get_windshear_data and
\* get_turbulence_data resolve alike.
C2_ResolveTotal ==
    Done("resolve_windshear") \/ Done("resolve_turbulence") =>
        /\ IsQueryBox(Out)
        /\ (Arg = <<"Europe">> => Out = EuropeBox)
        /\ (Arg \notin SevenContinents => Out = EuropeBox)
        /\ (Arg \in SevenContinents \ {<<"Europe">>} => Out # EuropeBox)
        /\ \A c \in SevenContinents \ {Arg} :
              Arg \in SevenContinents => Out # resolve_windshear(c)
        /\ Out = resolve_windshear(Arg)
        /\ Out = resolve_turbulence(Arg)

\* An unknown name has been resolved to Europe's box.
C2_Witness ==
    Done("resolve_windshear") /\ Arg = <<"Nowhereland">> /\ Out = EuropeBox

\* The reordering of a display-form box (west, east, south, north) into query
\* form (north, west, south, east).
ToQueryForm(x) == <<x[4], x[1], x[3], x[2]>>

\* C3: convert_api_to_plot_format maps every 4-element box (north, west,
\* south, east) to (west, east, south, north), never fails on one, and is
\* inverted by the reordering back to query form: converting a display-form
\* box to query form and back yields the box.
C3_ConvertPermutes ==
    Done("convert_api_to_plot_format") /\ Len(Arg) = 4 =>
        /\ Out = Returned(<<Arg[2], Arg[4], Arg[3], Arg[1]>>)
        /\ ToQueryForm(Out.value) = Arg
        /\ convert_api_to_plot_format(ToQueryForm(Arg)) = Returned(Arg)

\* Europe's query-form box has been converted to its display form.
C3_Witness ==
    /\ Done("convert_api_to_plot_format")
    /\ Arg = <<7100, -3100, 3600, 4000>>
    /\ Out = Returned(<<-3100, 4000, 3600, 7100>>)

\* C5 (as claimed): a non-finite shear value given to the classifier maps to
\* an 'unknown' category and never to one of the bins 0, 1, 2, 3.
C5_NonFiniteIsUnknown ==
    Done("classify_turbulence") /\ ~IsFinite(Arg) => Out \notin {0, 1, 2, 3}

SameCoordinates(a, b) == a.lat = b.lat /\ a.lon = b.lon

\* C6 (as claimed): calculate_general_wind_shear returns a field only when
\* its inputs have identical coordinates and ends in ShapeMismatch otherwise.
C6_ShapeMismatchOnDifferentCoordinates ==
    Done("calculate_general_wind_shear") =>
        IF SameCoordinates(Arg[1], Arg[2])
        THEN Out.kind = "return"
        ELSE Out.kind = "raise" /\ Out.exc = "ShapeMismatch"

FMax(a, b) == IF FLt(a, b) THEN b ELSE a

IsNonNegative(x) == ~IsNaN(x) /\ SignOf(x) = 1

\* The square of x is exact zero, infinite, or at least the least normal
\* number: squaring x does not underflow.
SquareDoesNotUnderflow(x) ==
    ~IsFinite(x) \/ x.n = 0 \/ x.n * x.n >= MinNormal * Unit

\* C7 (as claimed): for all non-negative v and h, sqrt(v^2 + h^2) is at least
\* max(v, h), and swapping the arguments gives the same result.
C7_LowerBoundAlways ==
    Done("general_shear_at") /\ IsNonNegative(Arg[1]) /\ IsNonNegative(Arg[2]) =>
        /\ FLe(FMax(Arg[1], Arg[2]), Out)
        /\ Out = GeneralShearAt(Arg[2], Arg[1])

\* C7 (amended): for all non-negative v and h, swapping the arguments gives
\* the same result, and sqrt(v^2 + h^2) is at least max(v, h) whenever the
\* square of max(v, h) does not underflow.
C7_LowerBoundWithoutUnderflow ==
    Done("general_shear_at") /\ IsNonNegative(Arg[1]) /\ IsNonNegative(Arg[2]) =>
        /\ Out = GeneralShearAt(Arg[2], Arg[1])
        /\ IsNonNegative(Out)
        /\ (SquareDoesNotUnderflow(FMax(Arg[1], Arg[2])) =>
               FLe(FMax(Arg[1], Arg[2]), Out))

\* The general shear of 3.0 and 4.0 has been computed and is 5.0.
C7_Witness ==
    /\ Done("general_shear_at")
    /\ Arg = <<FromInt(3), FromInt(4)>>
    /\ Out = FromInt(5)

(***************************************************************************)
(* Properties of the handlers (under Spec and SpecConc).                   *)
(***************************************************************************)
Idx(r) == DOMAIN trace[r]
E(r, i) == trace[r][i]

IsReply(e) == e.ev \in {"reply_text", "reply_photo"}

\* The index of the last event ev before position i of r's trace, 0 if none.
LastBefore(r, i, ev) ==
    LET S == {j \in 1 .. (i - 1) : E(r, j).ev = ev}
    IN IF S = {} THEN 0 ELSE CHOOSE j \in S : \A k \in S : k <= j

\* Position i of r's trace lies in a run of a pipeline function: after its
\* start and before its return or failure.
InRun(r, i) ==
    LET s == LastBefore(r, i, "pipeline_start") IN
    /\ s > 0
    /\ \A j \in (s + 1) .. (i - 1) : E(r, j).ev \notin {"pipeline_end", "raise"}

ToDisplayForm(b) == <<b[2], b[4], b[3], b[1]>>

StepTag(e) ==
    CASE e.ev = "download" -> <<"acquire", "data">>
      [] e.ev = "compute" -> <<"compute", e.arg>>
      [] e.ev = "plot" -> <<"render", e.arg.image>>
      [] OTHER -> <<"other", e.ev>>

ShearSteps ==
    << <<"acquire", "data">>,
       <<"compute", "vertical">>, <<"render", "vertical">>,
       <<"compute", "horizontal">>, <<"render", "horizontal">>,
       <<"compute", "general">>, <<"render", "general">> >>

TurbulenceSteps == ShearSteps \o << <<"compute", "classify">>, <<"render", "turbulence">> >>

\* The steps of the run that ends at position i of r's trace.
RunSteps(r, i) ==
    LET s == LastBefore(r, i, "pipeline_start") IN
    [k \in 1 .. (i - s - 1) |-> StepTag(E(r, s + k))]

ExpectedSteps(fn) == IF fn = "get_windshear_data" THEN ShearSteps ELSE TurbulenceSteps

\* C8 (as claimed): no reply is produced between receiving the command and
\* the end of the pipeline.
C8_NoReplyBeforePipelineEnd ==
    \A r \in ReqIds :
        (\E j \in Idx(r) : E(r, j).ev = "pipeline_start") =>
            \A i \in Idx(r) : IsReply(E(r, i)) => LastBefore(r, i, "pipeline_end") > 0

\* C8 (amended): every run of the pipeline (acquire, compute and render the
\* vertical, the horizontal and the general shear, and for the turbulence
\* image classify and render it) goes in that order to its end with no reply
\* produced during the run, and a photo is sent only after the run that
\* rendered it has ended; the replies before a run are the progress text
\* 'Retrieving...' and, in /latest, the retry notice.
C8_PipelineRunsBeforePhoto ==
    \A r \in ReqIds : \A i \in Idx(r) :
        /\ IsReply(E(r, i)) => ~InRun(r, i)
        /\ E(r, i).ev = "pipeline_end" => RunSteps(r, i) = ExpectedSteps(E(r, i).arg)
        /\ E(r, i).ev = "reply_photo" =>
              LET p == LastBefore(r, i, "pipeline_end") IN
              /\ p > 0
              /\ \E j \in 1 .. (p - 1) :
                    /\ E(r, j).ev = "plot"
                    /\ E(r, j).arg.file = E(r, i).arg.file
        /\ E(r, i).ev = "reply_text" /\ (\E j \in Idx(r) : j > i /\ E(r, j).ev = "pipeline_start")
              => E(r, i).arg \in {"retrieving", "retry_notice"}

\* /turbulence_request has sent its photo after the progress text and a
\* complete run.
C8_Witness ==
    \E r \in ReqIds : \E i \in Idx(r) :
        /\ h[r].cmd = "turbulence_request"
        /\ E(r, i).ev = "reply_photo"
        /\ E(r, 2).ev = "reply_text" /\ E(r, 2).arg = "retrieving"

\* How many retry notices r has sent, and how often it has started the
\* pipeline call of phase ph.
RetryNotices(r) ==
    Cardinality({i \in Idx(r) : E(r, i).ev = "reply_text" /\ E(r, i).arg = "retry_notice"})
StartsOf(r, ph) ==
    Cardinality({i \in Idx(r) : E(r, i).ev = "pipeline_start" /\ E(r, i).arg.phase = ph})

\* The first failure in r's trace, 0 if none.
FirstRaise(r) ==
    LET S == {j \in Idx(r) : E(r, j).ev = "raise"}
    IN IF S = {} THEN 0 ELSE CHOOSE j \in S : \A k \in S : j <= k

\* C9: in /latest a failure is retried at most once per command, and only
\* when its message carries a 'latest date available' stamp, the retry asking
\* for exactly the date and time of the stamp (the data source is asked for
\* that date and hour); a failure without a stamp gives the error reply, no
\* retry and no photo; a pipeline function never repeats a step.
C9_LatestRetriesOnce ==
    \A r \in ReqIds : h[r].cmd = "latest" =>
        /\ RetryNotices(r) <= 1
        /\ \A ph \in 1 .. 4 : StartsOf(r, ph) <= 1
        /\ \A i \in Idx(r) :
              /\ E(r, i).ev = "pipeline_start" /\ E(r, i).arg.phase >= 3 =>
                    LET f == FirstRaise(r) IN
                    /\ 0 < f /\ f < i
                    /\ E(r, f).arg.stamp # <<>>
                    /\ E(r, i).arg.date = SubSeq(E(r, f).arg.stamp, 1, 3)
                    /\ E(r, i).arg.time = SubSeq(E(r, f).arg.stamp, 4, 5)
              /\ E(r, i).ev = "download" /\ LastBefore(r, i, "raise") > 0 =>
                    LET st == E(r, FirstRaise(r)).arg.stamp IN
                    /\ E(r, i).arg.date = SubSeq(st, 1, 3)
                    /\ E(r, i).arg.time = <<st[4], 0>>
              /\ E(r, i).ev \in {"download", "compute", "plot"} =>
                    \A j \in (LastBefore(r, i, "pipeline_start") + 1) .. (i - 1) :
                        StepTag(E(r, j)) # StepTag(E(r, i))
        /\ LET f == FirstRaise(r) IN
           f > 0 /\ E(r, f).arg.stamp = <<>> =>
              /\ \A j \in Idx(r) : j > f =>
                    E(r, j).ev = "reply_text" /\ E(r, j).arg = "error" /\ j = f + 1
              /\ h[r].pc \in {"l_except", "end", "done"}

\* /latest has retried with the stamp 2024-11-09 18:30 and asked the data
\* source for that date at 18:00.
C9_Witness ==
    \E r \in ReqIds : \E i \in Idx(r) :
        /\ h[r].cmd = "latest"
        /\ E(r, i).ev = "download"
        /\ LastBefore(r, i, "raise") > 0
        /\ E(r, i).arg.date = <<2024, 11, 9>>
        /\ E(r, i).arg.time = <<18, 0>>

FixedImageFiles ==
    [vertical |-> "vertical_wind_shear.png", horizontal |-> "horizontal_wind_shear.png",
     general |-> "general_wind_shear.png", turbulence |-> "turbulence_level.png"]

\* C10: the image file names are fixed constants shared by all requests:
\* whatever the request, an image of a kind is written to and read back from
\* the one file of that kind, so that the file holds what its last writer
\* put there.
C10_FixedFilesShared ==
    /\ \A f \in DOMAIN files :
          /\ f \in {FixedImageFiles[k] : k \in DOMAIN FixedImageFiles}
          /\ f = FixedImageFiles[files[f].image]
    /\ \A r \in ReqIds : \A i \in Idx(r) :
          /\ E(r, i).ev = "plot" => E(r, i).arg.file = FixedImageFiles[E(r, i).arg.image]
          /\ E(r, i).ev = "reply_photo" =>
                E(r, i).arg.file \in {FixedImageFiles.turbulence, FixedImageFiles.general}

\* With handlers interleaved, a request has delivered an image file that the
\* other request wrote last.
C10_Witness ==
    \E r \in ReqIds : \E i \in Idx(r) :
        /\ E(r, i).ev = "reply_photo"
        /\ E(r, i).arg.sent.req # r

\* The handler of r has run to its end.
Ended(r) == h[r].pc \in {"end", "done"}

LastEvent(r) == E(r, Len(trace[r]))

\* r has not reached data acquisition: it has called no pipeline function,
\* asked the data source for nothing, computed and rendered nothing, written
\* no image file and sent no photo.
NoAcquisition(r) ==
    /\ \A i \in Idx(r) :
          E(r, i).ev \notin {"pipeline_start", "download", "compute", "plot", "reply_photo"}
    /\ \A f \in DOMAIN files : files[f].req # r
    /\ download_nc # r

\* The reply a rejected request ends with: the usage text with fewer than 3
\* arguments, the invalid-format text otherwise.
RejectedReply(r) ==
    /\ LastEvent(r).ev = "reply_text"
    /\ LastEvent(r).arg = IF Len(h[r].args) < 3 THEN "usage" ELSE "invalid_format"

\* The text is written as YYYY-MM-DD / as HH:MM, digit for digit.
IsYYYYMMDD(tok) == tok.shape = "dddd-dd-dd"
IsHHMM(tok) == tok.shape = "dd:dd"

\* C11 (as claimed): in /turbulence_request and /windshear_request a command
\* with fewer than 3 arguments, or whose date is not written YYYY-MM-DD or
\* whose time is not written HH:MM, never reaches data acquisition and ends
\* with the usage or the invalid-format text.
C11_RejectedUnlessWrittenAsFormat ==
    \A r \in ReqIds :
        /\ IsRequest(r)
        /\ \/ Len(h[r].args) < 3
           \/ ~IsYYYYMMDD(h[r].args[1])
           \/ ~IsHHMM(h[r].args[2])
        => /\ NoAcquisition(r)
           /\ (Ended(r) => RejectedReply(r))

\* C11 (amended): in /turbulence_request and /windshear_request a command
\* with fewer than 3 arguments, or whose date is not a calendar date written
\* as four digits, one or two digits and one or two digits joined by '-',
\* or whose time is not an hour below 24 and a minute below 60 written as
\* one or two digits each joined by ':', never reaches data acquisition and
\* ends with the usage text (fewer than 3 arguments) or the invalid-format
\* text; a date such as 2024-2-9 is accepted and processed.
C11_RejectedWhenNotParsed ==
    \A r \in ReqIds :
        /\ IsRequest(r)
        /\ \/ Len(h[r].args) < 3
           \/ h[r].args[1].shape \notin {"dddd-dd-dd", "dddd-d-dd", "dddd-dd-d", "dddd-d-d"}
           \/ h[r].args[2].shape \notin {"dd:dd", "d:dd", "dd:d", "d:d"}
           \/ h[r].args[1].v[2] \notin 1 .. 12
           \/ h[r].args[1].v[3] \notin 1 .. DaysIn(h[r].args[1].v[1], h[r].args[1].v[2])
           \/ h[r].args[2].v[1] \notin 0 .. 23
           \/ h[r].args[2].v[2] \notin 0 .. 59
        => /\ NoAcquisition(r)
           /\ (Ended(r) => RejectedReply(r))

\* A request with the date 15/11/2024 has ended with the invalid-format text
\* and has reached nothing of the pipeline.
C11_Witness ==
    \E r \in ReqIds :
        /\ IsRequest(r)
        /\ Len(h[r].args) >= 3
        /\ h[r].args[1].w = "15/11/2024"
        /\ Ended(r)
        /\ RejectedReply(r)
        /\ NoAcquisition(r)

\* A reply that ends a command: the usage text, the invalid-format text, the
\* 'An error occurred' text or a photo.
IsTerminalReply(e) ==
    \/ e.ev = "reply_photo"
    \/ e.ev = "reply_text" /\ e.arg \in {"usage", "invalid_format", "error"}

TerminalReplies(r) == Cardinality({i \in Idx(r) : IsTerminalReply(E(r, i))})

IsErrorText(e) == e.ev = "reply_text" /\ e.arg = "error"

HasRaised(r) == \E i \in Idx(r) : E(r, i).ev = "raise"

\* r is in the retry branch of /latest: it has sent the retry notice.
InRetryBranch(r) ==
    /\ h[r].cmd = "latest"
    /\ \E j \in Idx(r) : E(r, j).ev = "reply_text" /\ E(r, j).arg = "retry_notice"

\* C12: a /turbulence_request or /windshear_request command never sends more
\* than one terminal reply (usage text, invalid-format text, photo or error
\* text) and has sent exactly one, as its last reply, when it ends; a failure
\* of data acquisition, computation or rendering never leaves the handler,
\* is followed by the error text and by nothing else, and no photo is sent
\* in a command that failed. A failure in /continent, and one in the retry
\* branch of /latest, leaves the handler: nothing is sent after it, and in
\* /continent nothing was sent before it either.
C12_OneTerminalReplyOrSilentCrash ==
    \A r \in ReqIds :
        /\ IsRequest(r) =>
              /\ h[r].pc # "crashed"
              /\ TerminalReplies(r) <= 1
              /\ (Ended(r) => TerminalReplies(r) = 1 /\ IsTerminalReply(LastEvent(r)))
              /\ \A i \in Idx(r) : E(r, i).ev = "raise" =>
                    /\ h[r].pc \in {"r_except", "end", "done"}
                    /\ (h[r].pc = "r_except" <=> i = Len(trace[r]))
                    /\ (h[r].pc # "r_except" =>
                           i + 1 = Len(trace[r]) /\ IsErrorText(LastEvent(r)))
                    /\ \A j \in Idx(r) : E(r, j).ev # "reply_photo"
        /\ h[r].cmd = "continent" /\ HasRaised(r) =>
              /\ h[r].pc = "crashed"
              /\ LastEvent(r).ev = "raise"
              /\ \A j \in Idx(r) : ~IsReply(E(r, j))
        /\ InRetryBranch(r) /\ h[r].pc \notin {"l_retry", "l_retry2", "pipeline",
                                               "l_photo1", "l_photo2", "end", "done"} =>
              /\ h[r].pc = "crashed"
              /\ LastEvent(r).ev = "raise"
              /\ TerminalReplies(r) = 0
        /\ InRetryBranch(r) /\ LastEvent(r).ev = "raise" => h[r].pc = "crashed"

\* A /turbulence_request whose pipeline failed has ended with the error text
\* as its only terminal reply.
C12_Witness ==
    \E r \in ReqIds :
        /\ h[r].cmd = "turbulence_request"
        /\ HasRaised(r)
        /\ Ended(r)
        /\ IsErrorText(LastEvent(r))
        /\ TerminalReplies(r) = 1
=============================================================================
